---- MODULE Spec2Model ----
(***************************************************************************)
(* StockFlow backend: the low-stock alert endpoint (part3_alerts.py) and   *)
(* the product creation endpoint (part1_debug.py).                         *)
(*                                                                         *)
(* The alert endpoint is one SQL statement plus a Python loop; its tables  *)
(* are the variables below and GetLowStockAlerts evaluates the statement   *)
(* on them.  The creation endpoint is modelled per request, with the       *)
(* database reads and writes of concurrent requests interleaved.           *)
(***************************************************************************)
EXTENDS Integers, Sequences, FiniteSets, TLC

VARIABLES
    companies,            \* companies: id -> [is_active]
    products,             \* products: id -> [company_id, is_active, category_id, low_stock_threshold]
    product_categories,   \* product_categories: id -> [low_stock_threshold_default]
    warehouses,           \* warehouses: id -> [company_id]
    inventory,            \* inventory rows in heap order: <<[product_id, warehouse_id, quantity]>>
    daily_sales_summary,  \* set of [product_id, warehouse_id, sale_date, quantity_sold]
    suppliers,            \* suppliers: id -> [is_active]
    product_suppliers,    \* set of [product_id, supplier_id, is_preferred, unit_cost]
    today,                \* datetime.utcnow().date(), as a day number
    request,              \* company_id of the last GET .../alerts/low-stock (0: none yet)
    response,             \* the last response of the alert endpoint
    product_table,        \* committed Product rows of part1: set of [id, sku]
    inventory_table,      \* committed Inventory rows of part1: set of [product_id, warehouse_id, quantity]
    data,                 \* request.json of each POST /api/products request
    pc,                   \* where each request's handler stands
    session,              \* db.session of each request: rows flushed and not committed
    result                \* each finished request's response

alertVars == <<companies, products, product_categories, warehouses, inventory,
               daily_sales_summary, suppliers, product_suppliers, today,
               request, response>>

dbVars == <<companies, products, product_categories, warehouses, inventory,
            daily_sales_summary, suppliers, product_suppliers, today>>

createVars == <<product_table, inventory_table, data, pc, session, result>>

vars == <<alertVars, createVars>>

(***************************************************************************)
(* Bounds of the model.                                                    *)
(***************************************************************************)
MaxStock == 3
MaxQty == 2
MaxSales == 2
MaxCost == 2
NumRequests == 2

(***************************************************************************)
(* Program constants.                                                      *)
(***************************************************************************)
lookback_days == 30
GlobalDefaultThreshold == 10
MaxSkuLen == 50

\* SQL NULL / Python None: an optional value is a set with at most one element.
NULL == {}
Some(v) == {v}
Value(opt) == CHOOSE v \in opt : TRUE

RECURSIVE SumQuantity(_)
\* SUM(quantity_sold) over a set of daily_sales_summary rows.
SumQuantity(S) ==
    IF S = {} THEN 0
    ELSE LET s == CHOOSE x \in S : TRUE
         IN s.quantity_sold + SumQuantity(S \ {s})

(***************************************************************************)
(* PostgreSQL NUMERIC division, the "/" of lines 71 and 110.               *)
(*                                                                         *)
(* a / b on NUMERIC is rounded (half away from zero) to rscale decimal     *)
(* digits, rscale chosen by select_div_scale from the base-10000 weight    *)
(* and first base-10000 digit of each operand:                             *)
(*     qweight = weight1 - weight2, minus 1 if firstdigit1 <= firstdigit2  *)
(*     rscale  = max(16 - 4*qweight, dscale1, dscale2)                     *)
(* The model keeps quantities below 10000, so an integer operand has       *)
(* weight 0 and is its own first digit (0 for zero).                       *)
(***************************************************************************)
DivScale(weight1, firstdigit1, dscale1, weight2, firstdigit2, dscale2) ==
    LET qweight == (weight1 - weight2) - (IF firstdigit1 <= firstdigit2 THEN 1 ELSE 0)
        rscale == 16 - qweight * 4
        m1 == IF rscale > dscale1 THEN rscale ELSE dscale1
    IN IF m1 > dscale2 THEN m1 ELSE dscale2

(***************************************************************************)
(* SUM(quantity_sold)::DECIMAL / :lookback_days  (line 71).                *)
(*                                                                         *)
(* The quotient has 16 or 20 decimal digits, too many for TLC's integers,  *)
(* so it is kept as the exact description of the rounded value:            *)
(*     value = (total * T + round) / (3 * T),   T = 10^(rscale-1)          *)
(* total/30 = total*T/(3T) and T = 1 (mod 3), so rounding to rscale digits *)
(* drops a fraction of 0 (total%3 = 0, round 0), 1/3 (total%3 = 1, rounded *)
(* down, round -1) or 2/3 (total%3 = 2, rounded up, round +1).             *)
(* weight/firstdigit are those of the rounded value.                       *)
(***************************************************************************)
avg_daily_sales(total) ==
    LET rscale == DivScale(0, total, 0, 0, lookback_days, 0)
    IN [total |-> total,
        rscale |-> rscale,
        round |-> CASE total % 3 = 0 -> 0
                    [] total % 3 = 1 -> -1
                    [] OTHER -> 1,
        weight |-> IF total >= lookback_days THEN 0 ELSE -1,
        firstdigit |-> IF total >= lookback_days
                       THEN total \div lookback_days
                       ELSE (total * 10000) \div lookback_days]

\* sv.avg_daily_sales > 0 (line 109).
AvgPositive(avg) == avg.total * 10 + avg.round > 0

(***************************************************************************)
(* FLOOR(i.quantity / sv.avg_daily_sales)::INTEGER  (line 110).            *)
(*                                                                         *)
(* With x = quantity / value = 30*quantity*T / (total*T + round), the      *)
(* division yields x rounded to rscale2 digits and FLOOR of that is the    *)
(* largest d with d <= x + 1/(2*10^rscale2).  Writing 10^rscale2 = m*T     *)
(* (m = 10^(rscale2 - rscale + 1)) this is                                 *)
(*   2m(d*total - 30*quantity)*T^2 + (2m*d*round - total)*T - round <= 0   *)
(* and as T >= 10^15 dwarfs the coefficients the sign is decided by the    *)
(* first non-zero coefficient.  Only d = q = (30*quantity) div total and   *)
(* q - 1 can be the largest such d.                                        *)
(***************************************************************************)
days_until_stockout(quantity, avg) ==
    IF ~AvgPositive(avg) THEN NULL
    ELSE LET rscale2 == DivScale(0, quantity, 0, avg.weight, avg.firstdigit, avg.rscale)
             m == IF rscale2 - avg.rscale = 0 THEN 10 ELSE 100000
             q == (lookback_days * quantity) \div avg.total
             a2 == q * avg.total - lookback_days * quantity
             a1 == 2 * m * q * avg.round - avg.total
             a0 == 0 - avg.round
             fits == a2 < 0 \/ (a2 = 0 /\ (a1 < 0 \/ (a1 = 0 /\ a0 <= 0)))
         IN Some(IF fits THEN q ELSE q - 1)

(***************************************************************************)
(* WITH sales_velocity AS (...)  (lines 66-76).                            *)
(***************************************************************************)
SalesInWindow(sales, lookback_date) ==
    {s \in sales : s.sale_date >= lookback_date}

sales_velocity(sales, lookback_date) ==
    LET rows == SalesInWindow(sales, lookback_date)
        groups == {<<s.product_id, s.warehouse_id>> : s \in rows}
        total(g) == SumQuantity({s \in rows : <<s.product_id, s.warehouse_id>> = g})
    IN {[product_id |-> g[1], warehouse_id |-> g[2],
         avg_daily_sales |-> avg_daily_sales(total(g))] :
            g \in {h \in groups : total(h) > 0}}

(***************************************************************************)
(* effective_thresholds AS (...)  (lines 77-87).                           *)
(***************************************************************************)
COALESCE3(a, b, c) == IF a # NULL THEN a ELSE IF b # NULL THEN b ELSE c

\* COALESCE(p.low_stock_threshold, pc.low_stock_threshold_default, 10)
ThresholdCategoryFirst(p_threshold, pc_default) ==
    Value(COALESCE3(pc_default, p_threshold, Some(GlobalDefaultThreshold)))

Threshold(p_threshold, pc_default) ==
    Value(COALESCE3(p_threshold, pc_default, Some(GlobalDefaultThreshold)))

\* LEFT JOIN product_categories pc ON p.category_id = pc.id: the joined
\* category's default, NULL when the product has no (existing) category.
CategoryDefault(prods, cats, p) ==
    IF prods[p].category_id # NULL /\ Value(prods[p].category_id) \in DOMAIN cats
    THEN cats[Value(prods[p].category_id)].low_stock_threshold_default
    ELSE NULL

effective_thresholds(prods, cats, company_id) ==
    {[product_id |-> p,
      threshold |-> Threshold(prods[p].low_stock_threshold, CategoryDefault(prods, cats, p))] :
        p \in {x \in DOMAIN prods : prods[x].company_id = company_id /\ prods[x].is_active}}

(***************************************************************************)
(* preferred_suppliers AS (SELECT DISTINCT ON (ps.product_id) ...)         *)
(* (lines 88-98).  DISTINCT ON keeps the first row of each product under   *)
(* ORDER BY is_preferred DESC, unit_cost ASC; among rows equal on both     *)
(* keys the database is free to keep any, so the CTE has a set of          *)
(* possible values.                                                        *)
(***************************************************************************)
ActiveLinks(links, sups) ==
    {l \in links : l.supplier_id \in DOMAIN sups /\ sups[l.supplier_id].is_active}

SupplierOrderCostFirst(l1, l2) ==
    \/ l1.unit_cost < l2.unit_cost
    \/ l1.unit_cost = l2.unit_cost /\ l1.is_preferred /\ ~l2.is_preferred

\* l1 sorts strictly before l2 under is_preferred DESC, unit_cost ASC.
SupplierOrderBefore(l1, l2) ==
    \/ l1.is_preferred /\ ~l2.is_preferred
    \/ l1.is_preferred = l2.is_preferred /\ l1.unit_cost < l2.unit_cost

FirstLinks(links, sups, p) ==
    LET mine == {l \in ActiveLinks(links, sups) : l.product_id = p}
    IN {l \in mine : \A l2 \in mine : ~SupplierOrderBefore(l2, l)}

preferred_suppliers(links, sups) ==
    LET linked == {l.product_id : l \in ActiveLinks(links, sups)}
        picks == {f \in [linked -> DOMAIN sups] :
                    \A p \in linked : f[p] \in {l.supplier_id : l \in FirstLinks(links, sups, p)}}
    IN {{[product_id |-> p, supplier_id |-> f[p]] : p \in linked} : f \in picks}

(***************************************************************************)
(* The main SELECT (lines 99-123).                                         *)
(***************************************************************************)
WarehouseJoinAnyCompany(wh, warehouse_id, company_id) ==
    warehouse_id \in DOMAIN wh

\* JOIN warehouses w ON i.warehouse_id = w.id AND w.company_id = :company_id
WarehouseJoin(wh, warehouse_id, company_id) ==
    warehouse_id \in DOMAIN wh /\ wh[warehouse_id].company_id = company_id

\* The inventory rows (by heap position) that survive the inner joins and
\* the WHERE clause.
LowStockIndexes(inv, et, wh, sv, company_id) ==
    {i \in DOMAIN inv :
        /\ \E e \in et : e.product_id = inv[i].product_id
        /\ WarehouseJoin(wh, inv[i].warehouse_id, company_id)
        /\ \E v \in sv : v.product_id = inv[i].product_id
                         /\ v.warehouse_id = inv[i].warehouse_id
        /\ inv[i].quantity <
             (CHOOSE e \in et : e.product_id = inv[i].product_id).threshold}

\* One result row, for inventory row i.
ResultRow(inv, et, sv, ps, i) ==
    LET e == CHOOSE x \in et : x.product_id = inv[i].product_id
        v == CHOOSE x \in sv : x.product_id = inv[i].product_id
                               /\ x.warehouse_id = inv[i].warehouse_id
        s == {x \in ps : x.product_id = inv[i].product_id}
    IN [product_id |-> inv[i].product_id,
        warehouse_id |-> inv[i].warehouse_id,
        current_stock |-> inv[i].quantity,
        threshold |-> e.threshold,
        days_until_stockout |-> days_until_stockout(inv[i].quantity, v.avg_daily_sales),
        supplier_id |-> IF s = {} THEN NULL ELSE Some((CHOOSE x \in s : TRUE).supplier_id),
        row |-> i]

\* ORDER BY days_until_stockout ASC NULLS LAST: a may come before b.
OrderByLeq(a, b) ==
    \/ b.days_until_stockout = NULL
    \/ /\ a.days_until_stockout # NULL
       /\ Value(a.days_until_stockout) <= Value(b.days_until_stockout)

\* Every order the statement may return the rows in: the sort keys decide
\* the order of rows that differ on them and nothing decides the rest.
ResultOrders(rows) ==
    {f \in [1..Cardinality(rows) -> rows] :
        /\ \A i, j \in 1..Cardinality(rows) : i # j => f[i] # f[j]
        /\ \A i, j \in 1..Cardinality(rows) : i < j => OrderByLeq(f[i], f[j])}

\* The Python loop of lines 139-162: one alert per row.  The names (product,
\* sku, warehouse, supplier name and e-mail) are left out: each follows
\* from the id beside it.  `row` is not in the response: it records which
\* inventory row the alert came from.
Alert(r) ==
    [product_id |-> r.product_id,
     warehouse_id |-> r.warehouse_id,
     current_stock |-> r.current_stock,
     threshold |-> r.threshold,
     days_until_stockout |-> r.days_until_stockout,
     supplier |-> IF r.supplier_id # NULL /\ Value(r.supplier_id) # 0
                  THEN r.supplier_id ELSE NULL,
     row |-> r.row]

\* SELECT id FROM companies WHERE id = :id AND is_active = TRUE (lines 42-48)
CompanyFound(company_id) ==
    company_id \in DOMAIN companies /\ companies[company_id].is_active

(***************************************************************************)
(* GET /api/companies/<company_id>/alerts/low-stock                        *)
(***************************************************************************)
GetLowStockAlertsNotFound(company_id) ==
    /\ ~CompanyFound(company_id)
    /\ request' = company_id
    /\ response' = [status |-> 404, error |-> "Company not found"]
    /\ UNCHANGED <<dbVars, createVars>>

GetLowStockAlerts(company_id) ==
    /\ CompanyFound(company_id)
    /\ LET lookback_date == today - lookback_days
           sv == sales_velocity(daily_sales_summary, lookback_date)
           et == effective_thresholds(products, product_categories, company_id)
           idx == LowStockIndexes(inventory, et, warehouses, sv, company_id)
       IN \E ps \in preferred_suppliers(product_suppliers, suppliers) :
            \E results \in ResultOrders({ResultRow(inventory, et, sv, ps, i) : i \in idx}) :
               LET alerts == [k \in DOMAIN results |-> Alert(results[k])]
               IN response' = [status |-> 200, alerts |-> alerts,
                               total_alerts |-> Len(alerts)]
    /\ request' = company_id
    /\ UNCHANGED <<dbVars, createVars>>

\* db.session.execute raises (lines 132-134).
GetLowStockAlertsDbError(company_id) ==
    /\ CompanyFound(company_id)
    /\ request' = company_id
    /\ response' = [status |-> 500, error |-> "Failed to fetch alerts"]
    /\ UNCHANGED <<dbVars, createVars>>

(***************************************************************************)
(* Snapshots.  The endpoint only reads, so a behaviour is a snapshot and   *)
(* the requests made on it.  Init draws the snapshot from five families,   *)
(* each varying the tables one stage of the statement reads around a       *)
(* common base: companies 1 and 2 (3 is unknown), products 1 and 2 and     *)
(* warehouses 1 and 2 of company 1, product 3 and warehouse 3 of company   *)
(* 2, category 1, suppliers 1..3.                                          *)
(***************************************************************************)
Option(S) == {NULL} \cup {Some(v) : v \in S}

BaseProduct(company_id) ==
    [company_id |-> company_id, is_active |-> TRUE,
     category_id |-> NULL, low_stock_threshold |-> NULL]

BaseProducts == (1 :> BaseProduct(1)) @@ (2 :> BaseProduct(1)) @@ (3 :> BaseProduct(2))
BaseCompanies == (1 :> [is_active |-> TRUE]) @@ (2 :> [is_active |-> TRUE])
BaseCategories == (1 :> [low_stock_threshold_default |-> NULL])
BaseWarehouses == (1 :> [company_id |-> 1]) @@ (2 :> [company_id |-> 1])
                  @@ (3 :> [company_id |-> 2])
BaseSuppliers == [s \in {1, 2, 3} |-> [is_active |-> TRUE]]

InventoryRow(p, w, q) == [product_id |-> p, warehouse_id |-> w, quantity |-> q]
SalesRow(p, w, d, n) ==
    [product_id |-> p, warehouse_id |-> w, sale_date |-> d, quantity_sold |-> n]
Link(p, s, pref, cost) ==
    [product_id |-> p, supplier_id |-> s, is_preferred |-> pref, unit_cost |-> cost]

\* Sale dates around both ends of the look-back window, relative to today.
DateOffsets == {0 - 31, 0 - 30, 0 - 1, 0, 1}
Today == 100 + lookback_days

\* daily_sales_summary holds one row per (product, warehouse, day).
SalesKeyUnique(S) ==
    \A a, b \in S :
        (a.product_id = b.product_id /\ a.warehouse_id = b.warehouse_id
         /\ a.sale_date = b.sale_date) => a = b

RECURSIVE SubsetsUpTo(_, _)
SubsetsUpTo(S, n) ==
    IF n = 0 THEN {{}}
    ELSE LET smaller == SubsetsUpTo(S, n - 1)
         IN smaller \cup {T \cup {x} : T \in smaller, x \in S}

InitBase ==
    /\ companies = BaseCompanies
    /\ products = BaseProducts
    /\ product_categories = BaseCategories
    /\ warehouses = BaseWarehouses
    /\ suppliers = BaseSuppliers
    /\ product_suppliers = {}
    /\ today = Today

\* Stock and sales of product 1 in warehouses 1 and 2 (threshold 2).
InitVelocity ==
    /\ companies = BaseCompanies
    /\ products = [BaseProducts EXCEPT ![1].low_stock_threshold = Some(2)]
    /\ product_categories = BaseCategories
    /\ warehouses = BaseWarehouses
    /\ suppliers = BaseSuppliers
    /\ product_suppliers = {}
    /\ today = Today
    /\ \E q \in 0..MaxStock :
         inventory = <<InventoryRow(1, 1, q), InventoryRow(1, 2, q)>>
    /\ daily_sales_summary \in
         {S \in SubsetsUpTo({SalesRow(1, w, Today + d, n) :
                                w \in {1, 2}, d \in DateOffsets, n \in 0..MaxQty},
                            MaxSales) : SalesKeyUnique(S)}

\* Three low-stock rows that each sell one unit a day: days = stock.
InitRanking ==
    /\ InitBase
    /\ \E q1, q2, q3 \in 0..MaxStock :
         inventory = <<InventoryRow(1, 1, q1), InventoryRow(1, 2, q2),
                       InventoryRow(2, 1, q3)>>
    /\ daily_sales_summary = {SalesRow(1, 1, Today - 1, lookback_days),
                              SalesRow(1, 2, Today - 1, lookback_days),
                              SalesRow(2, 1, Today - 1, lookback_days)}

\* The supplier links of product 1 and which suppliers are active.
InitSuppliers ==
    /\ companies = BaseCompanies
    /\ products = BaseProducts
    /\ product_categories = BaseCategories
    /\ warehouses = BaseWarehouses
    /\ today = Today
    /\ inventory = <<InventoryRow(1, 1, 1), InventoryRow(2, 1, 2)>>
    /\ daily_sales_summary = {SalesRow(1, 1, Today - 1, lookback_days),
                              SalesRow(2, 1, Today - 1, lookback_days)}
    /\ suppliers \in [{1, 2, 3} -> [is_active : BOOLEAN]]
    /\ \E linked \in SUBSET {1, 2, 3} :
         \E pref \in [linked -> BOOLEAN], cost \in [linked -> 1..MaxCost] :
            product_suppliers =
                {Link(1, s, pref[s], cost[s]) : s \in linked} \cup {Link(2, 3, FALSE, 1)}

\* The threshold sources of product 1.
ThresholdValues == {0, 2, 15, 20}
InitThresholds ==
    /\ companies = BaseCompanies
    /\ warehouses = BaseWarehouses
    /\ suppliers = BaseSuppliers
    /\ product_suppliers = {}
    /\ today = Today
    /\ \E t \in Option(ThresholdValues), c \in Option({1, 9}) :
         products = [BaseProducts EXCEPT ![1].low_stock_threshold = t,
                                         ![1].category_id = c]
    /\ \E d \in Option(ThresholdValues) :
         product_categories = (1 :> [low_stock_threshold_default |-> d])
    /\ \E q \in 0..MaxStock : inventory = <<InventoryRow(1, 1, q)>>
    /\ daily_sales_summary = {SalesRow(1, 1, Today - 1, lookback_days)}

\* Who owns product 2 and warehouse 2, and which companies and products
\* are active; every (product, warehouse) pair is stocked low and selling.
InitScoping ==
    /\ product_categories = BaseCategories
    /\ suppliers = BaseSuppliers
    /\ product_suppliers = {}
    /\ today = Today
    /\ companies \in [{1, 2} -> [is_active : BOOLEAN]]
    /\ \E c \in {1, 2}, a \in BOOLEAN :
         products = [BaseProducts EXCEPT ![2].company_id = c, ![2].is_active = a]
    /\ \E c \in {1, 2} :
         warehouses = [BaseWarehouses EXCEPT ![2].company_id = c]
    /\ inventory = <<InventoryRow(1, 1, 1), InventoryRow(2, 2, 2),
                     InventoryRow(1, 2, 3), InventoryRow(2, 1, 4),
                     InventoryRow(3, 3, 5), InventoryRow(3, 1, 6)>>
    /\ daily_sales_summary =
         {SalesRow(p, w, Today - 1, lookback_days) : p \in {1, 2, 3}, w \in {1, 2, 3}}

\* No POST /api/products request is in flight.
NoCreateRequests ==
    /\ product_table = {}
    /\ inventory_table = {}
    /\ data = <<>>
    /\ pc = <<>>
    /\ session = <<>>
    /\ result = <<>>

Init ==
    /\ request = 0
    /\ response = [status |-> 0]
    /\ NoCreateRequests
    /\ \/ InitVelocity
       \/ InitRanking
       \/ InitSuppliers
       \/ InitThresholds
       \/ InitScoping

RequestIds == {1, 2, 3}

Next ==
    \E company_id \in RequestIds :
        \/ GetLowStockAlerts(company_id)
        \/ GetLowStockAlertsNotFound(company_id)
        \/ GetLowStockAlertsDbError(company_id)

Spec == Init /\ [][Next]_vars

(***************************************************************************)
(* Properties of the alert endpoint.                                       *)
(***************************************************************************)
Answered == response.status = 200
Alerts == IF Answered THEN {response.alerts[k] : k \in DOMAIN response.alerts} ELSE {}
AlertFor(p, w) == {a \in Alerts : a.product_id = p /\ a.warehouse_id = w}

\* The sales rows of a pair dated in the half-open window
\* [today - lookback_days, today), and their summed quantity_sold.
WindowRows(p, w) ==
    {s \in daily_sales_summary :
        /\ s.product_id = p /\ s.warehouse_id = w
        /\ today - lookback_days <= s.sale_date /\ s.sale_date < today}
WindowSum(p, w) == SumQuantity(WindowRows(p, w))
PairRows(p, w) ==
    {s \in daily_sales_summary : s.product_id = p /\ s.warehouse_id = w}

\* The threshold by precedence: product override, category default, 10.
ResolvedThreshold(p) ==
    LET c == products[p].category_id
    IN IF products[p].low_stock_threshold # NULL
       THEN Value(products[p].low_stock_threshold)
       ELSE IF c # NULL /\ Value(c) \in DOMAIN product_categories
               /\ product_categories[Value(c)].low_stock_threshold_default # NULL
            THEN Value(product_categories[Value(c)].low_stock_threshold_default)
            ELSE GlobalDefaultThreshold

\* An inventory row of the requesting company: an active product of the
\* company stocked in a warehouse of the company.
CompanyPair(i, company_id) ==
    /\ inventory[i].product_id \in DOMAIN products
    /\ products[inventory[i].product_id].company_id = company_id
    /\ products[inventory[i].product_id].is_active
    /\ inventory[i].warehouse_id \in DOMAIN warehouses
    /\ warehouses[inventory[i].warehouse_id].company_id = company_id

\* C1: an inventory pair of the company is alerted iff its stock is below
\* the resolved threshold and the pair itself sold something inside the
\* window [today - 30, today); nothing else is alerted.
C1_AlertIffLowAndRecentSales ==
    Answered =>
        /\ \A i \in DOMAIN inventory :
              CompanyPair(i, request) =>
                 (AlertFor(inventory[i].product_id, inventory[i].warehouse_id) # {}
                  <=> /\ inventory[i].quantity < ResolvedThreshold(inventory[i].product_id)
                      /\ WindowSum(inventory[i].product_id, inventory[i].warehouse_id) > 0)
        /\ \A a \in Alerts : \E i \in DOMAIN inventory :
              /\ CompanyPair(i, request)
              /\ inventory[i].product_id = a.product_id
              /\ inventory[i].warehouse_id = a.warehouse_id

\* The filter of C1 with the velocity fact as the statement computes it
\* (every sale dated today - 30 or later): the gate is per pair.
AlertIffLowAndVelocityFact ==
    Answered =>
        \A i \in DOMAIN inventory :
           CompanyPair(i, request) =>
              (AlertFor(inventory[i].product_id, inventory[i].warehouse_id) # {}
               <=> /\ inventory[i].quantity < ResolvedThreshold(inventory[i].product_id)
                   /\ SumQuantity({s \in PairRows(inventory[i].product_id,
                                                  inventory[i].warehouse_id) :
                                     s.sale_date >= today - lookback_days}) > 0)

\* C2: the threshold of every alert is the product's override if present,
\* else its category's default if present, else 10.
C2_ThresholdPrecedence ==
    Answered => \A a \in Alerts : a.threshold = ResolvedThreshold(a.product_id)

\* An alert whose product has an override and a different category default.
C2_Witness ==
    \E a \in Alerts :
        LET c == products[a.product_id].category_id
        IN /\ products[a.product_id].low_stock_threshold # NULL
           /\ c # NULL /\ Value(c) \in DOMAIN product_categories
           /\ product_categories[Value(c)].low_stock_threshold_default # NULL
           /\ product_categories[Value(c)].low_stock_threshold_default
                # products[a.product_id].low_stock_threshold
           /\ a.threshold = Value(products[a.product_id].low_stock_threshold)

\* C3: days_until_stockout of every alert is the exact
\* floor(current_stock * 30 / sum), sum the quantity sold in the window.
\* Stated for the pairs all of whose sales lie inside the window, where
\* the window's ends play no part.
C3_ExactFloor ==
    Answered =>
        \A a \in Alerts :
           (PairRows(a.product_id, a.warehouse_id) = WindowRows(a.product_id, a.warehouse_id)
            /\ WindowSum(a.product_id, a.warehouse_id) > 0)
           => a.days_until_stockout =
                Some((a.current_stock * lookback_days)
                        \div WindowSum(a.product_id, a.warehouse_id))

\* C4: the velocity of a pair comes from exactly the sales dated in
\* [today - 30, today): a velocity fact exists iff their sum is positive
\* and its average is that sum over 30.
C4_HalfOpenWindow ==
    Answered =>
        LET sv == sales_velocity(daily_sales_summary, today - lookback_days)
        IN \A i \in DOMAIN inventory :
              LET p == inventory[i].product_id
                  w == inventory[i].warehouse_id
                  fact == {v \in sv : v.product_id = p /\ v.warehouse_id = w}
              IN /\ fact # {} <=> WindowSum(p, w) > 0
                 /\ \A v \in fact : v.avg_daily_sales.total = WindowSum(p, w)

\* C5: the alerts are in ascending days_until_stockout, undefined last,
\* equal ones in the order of their inventory rows, and total_alerts is
\* the length of the list.
C5_SortedStable ==
    Answered =>
        /\ response.total_alerts = Len(response.alerts)
        /\ \A i, j \in DOMAIN response.alerts :
              i < j =>
                 LET a == response.alerts[i]
                     b == response.alerts[j]
                 IN /\ a.days_until_stockout = NULL => b.days_until_stockout = NULL
                    /\ (a.days_until_stockout # NULL /\ b.days_until_stockout # NULL)
                          => Value(a.days_until_stockout) <= Value(b.days_until_stockout)
                    /\ a.days_until_stockout = b.days_until_stockout => a.row < b.row

\* The order and the count without the tie rule.
SortedNullsLast ==
    Answered =>
        /\ response.total_alerts = Len(response.alerts)
        /\ \A i, j \in DOMAIN response.alerts :
              i < j =>
                 LET a == response.alerts[i]
                     b == response.alerts[j]
                 IN /\ a.days_until_stockout = NULL => b.days_until_stockout = NULL
                    /\ (a.days_until_stockout # NULL /\ b.days_until_stockout # NULL)
                          => Value(a.days_until_stockout) <= Value(b.days_until_stockout)

\* C6: the supplier of an alert is null exactly when its product has no
\* link to an active supplier; otherwise it is one supplier, of an active
\* link that no other active link of the product beats: none is preferred
\* when it is not, none of equal preference is cheaper.
C6_SupplierSelection ==
    Answered =>
        \A a \in Alerts :
           LET active == {l \in product_suppliers :
                             /\ l.product_id = a.product_id
                             /\ l.supplier_id \in DOMAIN suppliers
                             /\ suppliers[l.supplier_id].is_active}
           IN /\ a.supplier = NULL <=> active = {}
              /\ Cardinality(a.supplier) <= 1
              /\ a.supplier # NULL =>
                    \E l \in active :
                       /\ l.supplier_id = Value(a.supplier)
                       /\ \A l2 \in active :
                             /\ l2.is_preferred => l.is_preferred
                             /\ l2.is_preferred = l.is_preferred
                                   => l.unit_cost <= l2.unit_cost

\* An alert carrying a preferred supplier although a cheaper active
\* non-preferred link exists, beside an inactive supplier's link.
C6_Witness ==
    \E a \in Alerts :
        /\ a.supplier # NULL
        /\ \E l, l2 \in product_suppliers :
              /\ l.product_id = a.product_id /\ l2.product_id = a.product_id
              /\ l.supplier_id = Value(a.supplier) /\ l.is_preferred
              /\ suppliers[l2.supplier_id].is_active
              /\ ~l2.is_preferred /\ l2.unit_cost < l.unit_cost

\* C7: a request changes no table, and two requests of one company on one
\* snapshot get the same alert list with the same suppliers.
C7_Deterministic ==
    [][/\ dbVars' = dbVars
       /\ (response.status = 200 /\ response'.status = 200 /\ request' = request)
             => response' = response]_vars

\* The read-only half of C7.
ReadOnly == [][dbVars' = dbVars]_vars

\* The tables with every product and warehouse of another company, and
\* every inventory row on one of them, removed.
OwnProducts(company_id) ==
    [p \in {x \in DOMAIN products : products[x].company_id = company_id} |-> products[p]]
OwnWarehouses(company_id) ==
    [w \in {x \in DOMAIN warehouses : warehouses[x].company_id = company_id} |-> warehouses[w]]
OwnInventory(company_id) ==
    SelectSeq(inventory,
              LAMBDA r : /\ r.product_id \in DOMAIN OwnProducts(company_id)
                         /\ r.warehouse_id \in DOMAIN OwnWarehouses(company_id))
AlertFacts(a) ==
    [product_id |-> a.product_id, warehouse_id |-> a.warehouse_id,
     current_stock |-> a.current_stock, threshold |-> a.threshold,
     days_until_stockout |-> a.days_until_stockout]
OwnAlertFacts(company_id) ==
    LET sv == sales_velocity(daily_sales_summary, today - lookback_days)
        et == effective_thresholds(OwnProducts(company_id), product_categories, company_id)
        inv == OwnInventory(company_id)
        idx == LowStockIndexes(inv, et, OwnWarehouses(company_id), sv, company_id)
    IN {AlertFacts(ResultRow(inv, et, sv, {}, i)) : i \in idx}

\* C10: every alert is on an active product and a warehouse of the
\* requesting company, the alerts are those the company's own products,
\* warehouses and inventory give, and an unknown or inactive company gets
\* 404 and no alert list.
C10_CompanyScoped ==
    /\ \A a \in Alerts :
          /\ products[a.product_id].company_id = request
          /\ products[a.product_id].is_active
          /\ warehouses[a.warehouse_id].company_id = request
    /\ Answered => {AlertFacts(a) : a \in Alerts} = OwnAlertFacts(request)
    /\ response.status # 0 =>
          /\ ~CompanyFound(request) <=> response.status = 404
          /\ response.status = 404 => "alerts" \notin DOMAIN response

\* Company 1 is answered with alerts while a low, selling row of another
\* company's product sits in one of its warehouses.
C10_Witness ==
    /\ Answered /\ request = 1 /\ Alerts # {}
    /\ \E i \in DOMAIN inventory :
          /\ products[inventory[i].product_id].company_id # request
          /\ warehouses[inventory[i].warehouse_id].company_id = request
          /\ AlertFor(inventory[i].product_id, inventory[i].warehouse_id) = {}
    /\ \E i \in DOMAIN inventory :
          /\ products[inventory[i].product_id].company_id = request
          /\ warehouses[inventory[i].warehouse_id].company_id # request

(***************************************************************************)
(* POST /api/products  (part1_debug.py).                                   *)
(*                                                                         *)
(* Strings are sequences of characters, so that strip() and upper() are    *)
(* computed.  A number field holds what the conversion makes of it:        *)
(* [parses, value].                                                        *)
(***************************************************************************)
Requests == 1..NumRequests

IsSpace(c) == c = " "
Upper(c) == CASE c = "a" -> "A" [] c = "b" -> "B" [] c = "c" -> "C" [] OTHER -> c

RECURSIVE LStrip(_)
LStrip(s) == IF s # <<>> /\ IsSpace(Head(s)) THEN LStrip(Tail(s)) ELSE s
RECURSIVE RStrip(_)
RStrip(s) == IF s # <<>> /\ IsSpace(s[Len(s)]) THEN RStrip(SubSeq(s, 1, Len(s) - 1)) ELSE s
Strip(s) == RStrip(LStrip(s))

NormalizeSkuNoUpper(raw) == Strip(raw)

\* sku = data['sku'].strip().upper()  (line 28)
NormalizeSku(raw) == [i \in 1..Len(Strip(raw)) |-> Upper(Strip(raw)[i])]

\* not data.get(f): the field is missing, None or empty.
Falsy(field) == field = NULL \/ Value(field) = <<>>

Rejected(status, error) == [ok |-> FALSE, status |-> status, error |-> error]

\* Lines 15-63: the first check that fails decides the response.  `table`
\* is the committed products the uniqueness query of line 33 sees.
Validation(d, table, wh) ==
    IF d = NULL THEN Rejected(400, "Request body is required")
    ELSE LET body == Value(d)
             sku == NormalizeSku(Value(body.sku))
             quantity == IF body.initial_quantity = NULL
                         THEN [parses |-> TRUE, value |-> 0]
                         ELSE Value(body.initial_quantity)
         IN IF Falsy(body.name) \/ Falsy(body.sku)
               THEN Rejected(400, "Missing required fields")
            ELSE IF sku = <<>> \/ Len(sku) > MaxSkuLen
               THEN Rejected(400, "SKU must be 1-50 characters")
            ELSE IF \E p \in table : p.sku = sku
               THEN Rejected(409, "SKU already exists")
            ELSE IF body.price # NULL /\ ~Value(body.price).parses
               THEN Rejected(400, "Invalid price format")
            ELSE IF body.price # NULL /\ Value(body.price).value < 0
               THEN Rejected(400, "Price cannot be negative")
            ELSE IF body.warehouse_id # NULL /\ Value(body.warehouse_id) # 0
                    /\ Value(body.warehouse_id) \notin DOMAIN wh
               THEN Rejected(404, "Warehouse not found")
            ELSE IF body.warehouse_id # NULL /\ Value(body.warehouse_id) # 0
                    /\ ~quantity.parses
               THEN Rejected(400, "Invalid quantity format")
            ELSE IF body.warehouse_id # NULL /\ Value(body.warehouse_id) # 0
                    /\ quantity.value < 0
               THEN Rejected(400, "Initial quantity cannot be negative")
            ELSE [ok |-> TRUE, status |-> 0, error |-> ""]

\* if warehouse_id:  (lines 51, 80)
HasWarehouse(r) ==
    data[r] # NULL /\ Value(data[r]).warehouse_id # NULL
    /\ Value(Value(data[r]).warehouse_id) # 0

\* Product(name=..., sku=sku, ...)  (lines 68-73); the request stands for
\* the id the database gives the row.
ProductRow(r) == [id |-> r, sku |-> NormalizeSku(Value(Value(data[r]).sku))]

\* Inventory(product_id=product.id, warehouse_id=..., quantity=...)  (lines 81-85)
InventoryRowOf(r) ==
    [product_id |-> r,
     warehouse_id |-> Value(Value(data[r]).warehouse_id),
     quantity |-> IF Value(data[r]).initial_quantity = NULL THEN 0
                  ELSE Value(Value(data[r]).initial_quantity).value]

\* The unique index on products.sku: an insert conflicts with a committed
\* row of the same sku, and waits for a transaction holding an uncommitted
\* one to end.
UniqueSkuConflict(row, table) == \E p \in table : p.sku = row.sku
UniqueSkuWait(r, row) ==
    \E o \in Requests \ {r} : \E p \in session[o] : p.sku = row.sku

\* The error the unique index raises, and whether str(e.orig).lower()
\* holds 'sku' (line 112).
UniqueSkuError == [type |-> "IntegrityError", orig |-> "duplicate key (sku)"]
OtherIntegrityError == [type |-> "IntegrityError", orig |-> "foreign key (warehouse_id)"]
OtherError == [type |-> "Exception", orig |-> "connection lost"]
MentionsSku(err) == err.orig = "duplicate key (sku)"

ExceptStatusAlwaysGeneric(err) ==
    IF err.type = "IntegrityError" THEN 400 ELSE 500

\* The except clauses of lines 109-120, after db.session.rollback().
ExceptStatus(err) ==
    IF err.type = "IntegrityError"
    THEN IF MentionsSku(err) THEN 409 ELSE 400
    ELSE 500

AfterFlushAutocommit(r, row) ==
    [product_table |-> product_table \cup {row}, session |-> session]

\* db.session.add(product); db.session.flush()  (lines 75-76): the row is
\* written inside the request's transaction.
AfterFlush(r, row) ==
    [product_table |-> product_table,
     session |-> [session EXCEPT ![r] = @ \cup {row}]]

Finish(r, status, exit, raised) ==
    /\ pc' = [pc EXCEPT ![r] = "done"]
    /\ result' = [result EXCEPT ![r] = [status |-> status, exit |-> exit, raised |-> raised]]

\* Lines 13-63.
Validate(r) ==
    /\ pc[r] = "validate"
    /\ LET v == Validation(data[r], product_table, warehouses)
       IN IF v.ok
          THEN /\ pc' = [pc EXCEPT ![r] = "insert"]
               /\ UNCHANGED result
          ELSE Finish(r, v.status, "validation", "none")
    /\ UNCHANGED <<alertVars, product_table, inventory_table, data, session>>

\* Lines 68-76, the insert going through.
FlushProduct(r) ==
    /\ pc[r] = "insert"
    /\ ~UniqueSkuConflict(ProductRow(r), product_table)
    /\ ~UniqueSkuWait(r, ProductRow(r))
    /\ product_table' = AfterFlush(r, ProductRow(r)).product_table
    /\ session' = AfterFlush(r, ProductRow(r)).session
    /\ pc' = [pc EXCEPT ![r] = "commit"]
    /\ UNCHANGED <<alertVars, inventory_table, data, result>>

\* Lines 68-76, the insert meeting a row committed since the check of
\* line 33: IntegrityError, rollback, lines 109-114.
FlushDuplicateSku(r) ==
    /\ pc[r] = "insert"
    /\ UniqueSkuConflict(ProductRow(r), product_table)
    /\ session' = [session EXCEPT ![r] = {}]
    /\ Finish(r, ExceptStatus(UniqueSkuError), "insert", UniqueSkuError.orig)
    /\ UNCHANGED <<alertVars, product_table, inventory_table, data>>

\* Lines 68-76 raising anything else: rollback, lines 116-120.
FlushRaises(r) ==
    /\ pc[r] = "insert"
    /\ session' = [session EXCEPT ![r] = {}]
    /\ Finish(r, ExceptStatus(OtherError), "insert", OtherError.orig)
    /\ UNCHANGED <<alertVars, product_table, inventory_table, data>>

\* Lines 79-107: the inventory row is added and one commit stores what the
\* transaction wrote.
Commit(r) ==
    /\ pc[r] = "commit"
    /\ product_table' = product_table \cup session[r]
    /\ inventory_table' = inventory_table \cup
                            (IF HasWarehouse(r) THEN {InventoryRowOf(r)} ELSE {})
    /\ session' = [session EXCEPT ![r] = {}]
    /\ Finish(r, 201, "created", "none")
    /\ UNCHANGED <<alertVars, data>>

\* Lines 79-89 raising, in the inventory insert or in the commit:
\* rollback, then 400 or 500.
CommitRaises(r) ==
    /\ pc[r] = "commit"
    /\ \E err \in {OtherIntegrityError, OtherError} :
          Finish(r, ExceptStatus(err), "commit", err.orig)
    /\ session' = [session EXCEPT ![r] = {}]
    /\ UNCHANGED <<alertVars, product_table, inventory_table, data>>

\* The commit of line 89 succeeding and lines 91-107 raising (product.id
\* is reloaded after the commit): the rollback has nothing left to undo.
CommitRespondRaises(r) ==
    /\ pc[r] = "commit"
    /\ product_table' = product_table \cup session[r]
    /\ inventory_table' = inventory_table \cup
                            (IF HasWarehouse(r) THEN {InventoryRowOf(r)} ELSE {})
    /\ session' = [session EXCEPT ![r] = {}]
    /\ Finish(r, ExceptStatus(OtherError), "respond", OtherError.orig)
    /\ UNCHANGED <<alertVars, data>>

(***************************************************************************)
(* The request bodies tried.                                               *)
(***************************************************************************)
Num(v) == Some([parses |-> TRUE, value |-> v])
NotANumber == Some([parses |-> FALSE, value |-> 0])
Body(name, sku, price, warehouse_id, initial_quantity) ==
    Some([name |-> name, sku |-> sku, price |-> price,
          warehouse_id |-> warehouse_id, initial_quantity |-> initial_quantity])

SkuLower == <<"a", "b", "c">>
SkuPadded == <<" ", "A", "B", "c", " ">>
SkuOther == <<"b", " ", "a">>
SkuTooLong == [i \in 1..(MaxSkuLen + 1) |-> "A"]

Bodies ==
    { NULL,
      Body(Some(<<"n">>), Some(SkuLower), Num(5), Some(1), Num(5)),
      Body(Some(<<"n">>), Some(SkuPadded), NULL, NULL, NULL),
      Body(Some(<<"n">>), Some(SkuOther), NULL, Some(2), NULL),
      Body(NULL, Some(SkuLower), NULL, NULL, NULL),
      Body(Some(<<"n">>), Some(<<>>), NULL, NULL, NULL),
      Body(Some(<<"n">>), Some(<<" ">>), NULL, NULL, NULL),
      Body(Some(<<"n">>), Some(SkuTooLong), NULL, NULL, NULL),
      Body(Some(<<"n">>), Some(SkuLower), Num(0 - 1), Some(1), Num(1)),
      Body(Some(<<"n">>), Some(SkuLower), NotANumber, Some(1), Num(1)),
      Body(Some(<<"n">>), Some(SkuLower), NULL, Some(9), Num(1)),
      Body(Some(<<"n">>), Some(SkuLower), NULL, Some(1), Num(0 - 1)),
      Body(Some(<<"n">>), Some(SkuLower), NULL, Some(1), NotANumber) }

InitCreate ==
    /\ request = 0
    /\ response = [status |-> 0]
    /\ InitBase
    /\ inventory = <<>>
    /\ daily_sales_summary = {}
    /\ product_table = {}
    /\ inventory_table = {}
    /\ data \in [Requests -> Bodies]
    /\ pc = [r \in Requests |-> "validate"]
    /\ session = [r \in Requests |-> {}]
    /\ result = [r \in Requests |-> [status |-> 0, exit |-> "", raised |-> "none"]]

NextCreate ==
    \E r \in Requests :
        \/ Validate(r)
        \/ FlushProduct(r)
        \/ FlushDuplicateSku(r)
        \/ FlushRaises(r)
        \/ Commit(r)
        \/ CommitRaises(r)
        \/ CommitRespondRaises(r)

SpecCreate == InitCreate /\ [][NextCreate]_vars

(***************************************************************************)
(* Properties of the creation endpoint.                                    *)
(***************************************************************************)
HasProduct(r) == \E p \in product_table : p.id = r
HasInventory(r) == \E i \in inventory_table : i.product_id = r
WarehouseGiven(r) ==
    /\ data[r] # NULL
    /\ Value(data[r]).warehouse_id \notin {NULL, Some(0)}

\* C8: the store holds, of each request, the product together with the
\* inventory row it asked for or nothing; a handler that ended anywhere
\* but after a successful commit has rolled back and left nothing, and so
\* has every request that validation rejected.
C8_AllOrNothing ==
    \A r \in Requests :
        /\ HasInventory(r) => HasProduct(r) /\ WarehouseGiven(r)
        /\ (HasProduct(r) /\ WarehouseGiven(r)) => HasInventory(r)
        /\ (pc[r] = "done" /\ result[r].exit \in {"validation", "insert", "commit"})
              => ~HasProduct(r) /\ ~HasInventory(r) /\ session[r] = {}
        /\ pc[r] = "done" => session[r] = {}
        /\ (pc[r] = "done" /\ result[r].status = 201)
              => HasProduct(r) /\ (WarehouseGiven(r) => HasInventory(r))

\* One request failed between the flush and the commit and left nothing,
\* another stored its product with its inventory row.
C8_Witness ==
    \E r, o \in Requests :
        /\ pc[r] = "done" /\ result[r].exit = "commit" /\ WarehouseGiven(r)
        /\ ~HasProduct(r) /\ ~HasInventory(r)
        /\ pc[o] = "done" /\ result[o].status = 201
        /\ HasProduct(o) /\ HasInventory(o)

\* The SKU a raw string stands for: what lies between its first and last
\* non-blank character, in upper case.
CanonicalSku(raw) ==
    LET solid == {i \in DOMAIN raw : raw[i] # " "}
        lo == CHOOSE i \in solid : \A j \in solid : i <= j
        hi == CHOOSE i \in solid : \A j \in solid : j <= i
        up == [c \in {"a", "b", "c", "A", "B", "C", " ", "n"} |->
                 IF c = "a" THEN "A" ELSE IF c = "b" THEN "B"
                 ELSE IF c = "c" THEN "C" ELSE c]
    IN IF solid = {} THEN <<>>
       ELSE [k \in 1..(hi - lo + 1) |-> up[raw[lo + k - 1]]]
SkuOf(r) == CanonicalSku(Value(Value(data[r]).sku))

\* A body that no field check rejects: name and SKU present, the SKU of
\* 1 to 50 characters, price and quantity non-negative numbers when they
\* are read, the warehouse an existing one.
WellFormed(r) ==
    /\ data[r] # NULL
    /\ LET body == Value(data[r])
       IN /\ ~Falsy(body.name) /\ ~Falsy(body.sku)
          /\ SkuOf(r) # <<>> /\ Len(SkuOf(r)) <= MaxSkuLen
          /\ body.price # NULL => (Value(body.price).parses /\ Value(body.price).value >= 0)
          /\ WarehouseGiven(r) =>
                /\ Value(body.warehouse_id) \in DOMAIN warehouses
                /\ body.initial_quantity # NULL =>
                      /\ Value(body.initial_quantity).parses
                      /\ Value(body.initial_quantity).value >= 0
StoredTwin(r) == \E o \in Requests \ {r} : HasProduct(o) /\ SkuOf(o) = SkuOf(r)

====
